---- MODULE Spec2Model ----
(***************************************************************************)
(* LLMClient (infosci_spark_client/client.py): one chat call, buffered or  *)
(* streamed, against an upstream that answers with a status and a body or  *)
(* a stream of lines.                                                       *)
(***************************************************************************)
EXTENDS Integers, Sequences, FiniteSets, TLC

\* Number of lines the upstream delivers before it closes the stream, at most.
MaxLines == 3

\* Number of next() calls the caller makes on one generator, at most.
MaxPulls == 5

----------------------------------------------------------------------------
\* Python / JSON values.  An object is a sequence of <<key, value>> pairs.

Null == [t |-> "null"]
Str(s) == [t |-> "str", s |-> s]
Num(n) == [t |-> "num", n |-> n]
Bool(b) == [t |-> "bool", b |-> b]
Arr(a) == [t |-> "arr", a |-> a]
Obj(o) == [t |-> "obj", o |-> o]

HasKey(v, k) == \E i \in DOMAIN v.o : v.o[i][1] = k
Lookup(v, k) == v.o[CHOOSE i \in DOMAIN v.o : v.o[i][1] = k][2]

\* First character of the strings the model uses (s[0] in Python).
FirstChar(s) ==
  CASE s = "stop" -> "s"
    [] s = "choices" -> "c"
    [] s = "length" -> "l"
    [] s = "hi" -> "h"
    [] s = "think" -> "t"
    [] OTHER -> s

\* `key in v`: defined for objects (key membership), arrays (element
\* membership) and strings (substring; no model string properly contains key).
CanContain(v) == v.t \in {"obj", "arr", "str"}
PyIn(k, v) ==
  CASE v.t = "obj" -> HasKey(v, k)
    [] v.t = "arr" -> \E i \in DOMAIN v.a : v.a[i] = Str(k)
    [] v.t = "str" -> v.s = k

\* len(v)
HasLen(v) == v.t \in {"obj", "arr", "str"}
PyLen(v) ==
  CASE v.t = "obj" -> Len(v.o)
    [] v.t = "arr" -> Len(v.a)
    [] v.t = "str" -> IF v.s = "" THEN 0 ELSE 1

\* v[0] for an array or a string (an object has no key 0: KeyError).
PyItem0(v) == IF v.t = "arr" THEN v.a[1] ELSE Str(FirstChar(v.s))

\* v.get(k, default) of a dict.
PyGet(v, k, default) == IF HasKey(v, k) THEN Lookup(v, k) ELSE default

\* bool(v)
PyTruthy(v) ==
  CASE v.t = "null" -> FALSE
    [] v.t = "bool" -> v.b
    [] v.t = "num" -> v.n # 0
    [] v.t = "str" -> v.s # ""
    [] v.t = "arr" -> Len(v.a) > 0
    [] v.t = "obj" -> Len(v.o) > 0

\* Outcomes of a step of extraction.
Skip == [k |-> "skip"]
Raise(e) == [k |-> "raise", exc |-> e]
Emit(r, c) == [k |-> "emit", result |-> r, choice |-> c]

----------------------------------------------------------------------------
\* chat(): validation and payload.

valid_levels == {Str("low"), Str("medium"), Str("high"), Null}

\* The reasoning_level arguments tried.
Levels == valid_levels \cup {Str("LOW"), Str(""), Str("max")}

\* BuildPayload that always writes the key: payload["reasoning_level"] = reasoning_level
BuildPayloadAlways(msgs, strm, level) ==
  Obj(<<<<"messages", msgs>>, <<"stream", Bool(strm)>>, <<"reasoning_level", level>>>>)

BuildPayload(msgs, strm, level) ==
  Obj(<<<<"messages", msgs>>, <<"stream", Bool(strm)>>>>
      \o (IF level # Null THEN <<<<"reasoning_level", level>>>> ELSE <<>>))

\* The message lists the caller passes, and a message the caller may append
\* to its list after the call.
Message(role, content) == Obj(<<<<"role", Str(role)>>, <<"content", Str(content)>>>>)
Messages == Arr(<<Message("user", "hi")>>)
Messages2 == Arr(<<Message("system", "think"), Message("user", "hi")>>)
MessageLists == {Messages, Messages2}
LaterMessage == Message("user", "stop")

\* payload["messages"] is the caller's list itself: what the list holds now.
WithMessages(p, msgs) == [p EXCEPT !.o[1][2] = msgs]

----------------------------------------------------------------------------
\* Text on the wire.  A line or a body is a sequence of pieces: a piece of
\* literal text, the text of one JSON document, or a byte that is not UTF-8.

Txt(s) == [k |-> "txt", s |-> s]
Js(v) == [k |-> "json", v |-> v]
BadByte == [k |-> "byte"]

\* bytes.decode('utf-8') succeeds
Decodable(b) == \A i \in DOMAIN b : b[i] # BadByte

\* str.startswith(p)
StartsWith(str, p) == Len(str) > 0 /\ str[1] = Txt(p)

\* str.strip()
RECURSIVE LStrip(_)
LStrip(str) == IF StartsWith(str, " ") THEN LStrip(Tail(str)) ELSE str
RECURSIVE RStrip(_)
RStrip(str) ==
  IF Len(str) > 0 /\ str[Len(str)] = Txt(" ")
  THEN RStrip(SubSeq(str, 1, Len(str) - 1))
  ELSE str
Strip(str) == RStrip(LStrip(str))

\* json.loads(str): the text must be one JSON document, whitespace around it
\* allowed; anything else is a JSONDecodeError.
IsJson(str) == Len(Strip(str)) = 1 /\ Strip(str)[1].k = "json"
JsonLoads(str) == Strip(str)[1].v

\* Stream chunks and bodies of the upstream.
Choices(kind, content, reasoning, finish) ==
  Obj(<<<<"choices",
          Arr(<<Obj(<<<<kind, Obj(content \o reasoning)>>>> \o finish)>>)>>>>)
Content(s) == <<<<"content", s>>>>
Reasoning(s) == <<<<"reasoning_content", s>>>>
Finish(s) == <<<<"finish_reason", s>>>>

ChunkA == Choices("delta", Content(Str("a")), Reasoning(Str("r")), <<>>)
ChunkB == Choices("delta", Content(Str("b")), <<>>, Finish(Str("stop")))
ChunkC == Choices("delta", Content(Str("c")), Reasoning(Str("r")), Finish(Null))
ChunkNullContent == Choices("delta", Content(Null), Reasoning(Str("r")), <<>>)
ChunkNoDelta == Obj(<<<<"choices", Arr(<<Obj(Finish(Str("length")))>>)>>>>)
ChunkDeltaNum ==
  Obj(<<<<"choices", Arr(<<Obj(<<<<"delta", Num(5)>>>> \o Finish(Str("stop")))>>)>>>>)
ChunkChoiceNum == Obj(<<<<"choices", Arr(<<Num(5)>>)>>>>)
ChoicesNum == Obj(<<<<"choices", Num(5)>>>>)
ChoicesStr == Obj(<<<<"choices", Str("stop")>>>>)
ChoicesObj == Obj(<<<<"choices", Obj(<<<<"0", Num(5)>>>>)>>>>)
ChoicesEmpty == Obj(<<<<"choices", Arr(<<>>)>>>>)
NoChoices == Obj(<<<<"error", Str("x")>>>>)
JNum == Num(5)
JArr == Arr(<<Str("choices")>>)
JStr == Str("choices")

Data(v) == <<Txt("data: "), Js(v)>>

Lines ==
  { <<>>,                                        \* empty line
    <<Txt(" ")>>,                                \* whitespace only
    <<Txt(":"), Txt(" "), Txt("ping")>>,         \* comment
    <<Txt("data: "), BadByte>>,                  \* not UTF-8
    <<Txt(":"), BadByte>>,                       \* comment, not UTF-8
    <<Txt("data: "), Txt("[DONE]")>>,
    <<Txt(" "), Txt("[DONE]"), Txt(" ")>>,
    <<Txt("data: "), Txt("not-json")>>,
    <<Js(ChunkA)>> }
  \cup { Data(v) : v \in { ChunkA, ChunkB, ChunkC, ChunkNullContent,
                           ChunkNoDelta, ChunkDeltaNum, ChunkChoiceNum,
                           ChoicesNum, ChoicesStr, ChoicesObj, ChoicesEmpty,
                           NoChoices, JNum, JArr, JStr } }

NoLine == <<Txt("<none>")>>

MsgFull == Choices("message", Content(Str("hi")), Reasoning(Str("think")), <<>>)
MsgBare == Choices("message", Content(Str("hi")), <<>>, <<>>)
MsgTwo ==
  Obj(<<<<"choices",
          Arr(<<Obj(<<<<"message", Obj(Content(Str("hi")))>>>>),
                Obj(<<<<"message", Obj(Content(Str("b")) \o Reasoning(Str("r")))>>>>)>>)>>>>)
MsgNullContent == Choices("message", Content(Null), Reasoning(Num(5)), <<>>)

Bodies ==
  { <<>>, <<Txt("<html>")>> }
  \cup { <<Js(v)>> : v \in { MsgFull, MsgBare, MsgTwo, MsgNullContent,
                            ChoicesEmpty, NoChoices, ChoicesNum, JNum,
                            ChunkChoiceNum } }

NoBody == <<Txt("<none>")>>

\* HTTP statuses the upstream answers with.
Statuses == {200, 404, 500}

\* A response whose status is never checked.
StatusUnchecked(s) == FALSE

\* response.raise_for_status() raises HTTPError
IsHttpError(s) == s >= 400 /\ s < 600

----------------------------------------------------------------------------
\* str(data): the Python repr of a parsed value.
RECURSIVE PyRepr(_)
RECURSIVE ReprItems(_)
RECURSIVE ReprPairs(_)
PyRepr(v) ==
  CASE v.t = "null" -> "None"
    [] v.t = "bool" -> IF v.b THEN "True" ELSE "False"
    [] v.t = "num" -> ToString(v.n)
    [] v.t = "str" -> "'" \o v.s \o "'"
    [] v.t = "arr" -> "[" \o ReprItems(v.a) \o "]"
    [] v.t = "obj" -> "{" \o ReprPairs(v.o) \o "}"
ReprItems(a) ==
  IF a = <<>> THEN ""
  ELSE PyRepr(Head(a)) \o (IF Len(a) > 1 THEN ", " ELSE "") \o ReprItems(Tail(a))
ReprPairs(o) ==
  IF o = <<>> THEN ""
  ELSE "'" \o Head(o)[1] \o "': " \o PyRepr(Head(o)[2])
       \o (IF Len(o) > 1 THEN ", " ELSE "") \o ReprPairs(Tail(o))

\* reasoning = message.get("reasoning_content", "") if show_thinking else ""
MessageReasoning(message, show) ==
  IF show THEN PyGet(message, "reasoning_content", Str("")) ELSE Str("")

\* DeltaReasoning without the show_thinking test.
DeltaReasoningAlways(delta, show) == PyGet(delta, "reasoning_content", Str(""))

\* reasoning = delta.get("reasoning_content", "") if show_thinking else ""
DeltaReasoning(delta, show) ==
  IF show THEN PyGet(delta, "reasoning_content", Str("")) ELSE Str("")

\* The extraction of _non_stream_chat from the parsed body.
NonStreamExtract(data, show) ==
  IF ~CanContain(data) THEN Raise("TypeError")
  ELSE IF ~PyIn("choices", data)
  THEN Emit([content |-> Str(PyRepr(data)), reasoning |-> Str("")], Null)
  ELSE IF data.t # "obj" THEN Raise("TypeError")
  ELSE LET choices == Lookup(data, "choices") IN
    IF ~HasLen(choices) THEN Raise("TypeError")
    ELSE IF ~(PyLen(choices) > 0)
    THEN Emit([content |-> Str(PyRepr(data)), reasoning |-> Str("")], Null)
    ELSE IF choices.t = "obj" THEN Raise("KeyError")
    ELSE LET choice == PyItem0(choices) IN
      IF choice.t # "obj" THEN Raise("AttributeError")
      ELSE LET message == PyGet(choice, "message", Obj(<<>>)) IN
        IF message.t # "obj" THEN Raise("AttributeError")
        ELSE Emit([content |-> PyGet(message, "content", Str("")),
                   reasoning |-> MessageReasoning(message, show)], choice)

\* response.json() and the extraction.
NonStreamResult(b, show) ==
  IF ~IsJson(b) THEN Raise("JSONDecodeError")
  ELSE NonStreamExtract(JsonLoads(b), show)

\* StreamExtract that reads choices[0].message, as _non_stream_chat does.
StreamExtractMessage(data, show) ==
  LET out == NonStreamExtract(data, show) IN
  IF out.k = "emit" /\ out.choice = Null THEN Skip ELSE out

\* The body of the try block of _stream_chat, for one parsed line.
StreamExtract(data, show) ==
  IF ~CanContain(data) THEN Raise("TypeError")
  ELSE IF ~PyIn("choices", data) THEN Skip
  ELSE IF data.t # "obj" THEN Raise("TypeError")
  ELSE LET choices == Lookup(data, "choices") IN
    IF ~HasLen(choices) THEN Raise("TypeError")
    ELSE IF ~(PyLen(choices) > 0) THEN Skip
    ELSE IF choices.t = "obj" THEN Raise("KeyError")
    ELSE LET choice == PyItem0(choices) IN
      IF choice.t # "obj" THEN Raise("AttributeError")
      ELSE LET delta == PyGet(choice, "delta", Obj(<<>>)) IN
        IF delta.t # "obj" THEN Raise("AttributeError")
        ELSE Emit([content |-> PyGet(delta, "content", Str("")),
                   reasoning |-> DeltaReasoning(delta, show)], choice)

\* IsDoneMarker without the strip(): line_str == '[DONE]'.
IsDoneMarkerUnstripped(str) == str = <<Txt("[DONE]")>>

\* if line_str.strip() == '[DONE]': break
IsDoneMarker(str) == Strip(str) = <<Txt("[DONE]")>>

\* if line_str.startswith('data: '): line_str = line_str[6:]
StripDataPrefix(str) == IF StartsWith(str, "data: ") THEN Tail(str) ELSE str

\* except json.JSONDecodeError: continue / except Exception: continue
Swallow(out) == IF out.k = "raise" THEN Skip ELSE out

\* One iteration of the loop of _stream_chat over the line b.
Break == [k |-> "break"]
ProcessLine(b, show) ==
  IF b = <<>> THEN Skip
  ELSE IF ~Decodable(b) THEN Raise("UnicodeDecodeError")
  ELSE IF StartsWith(b, ":") \/ Strip(b) = <<>> THEN Skip
  ELSE LET line_str == StripDataPrefix(b) IN
    IF IsDoneMarker(line_str) THEN Break
    ELSE Swallow(IF ~IsJson(line_str) THEN Raise("JSONDecodeError")
                 ELSE StreamExtract(JsonLoads(line_str), show))

\* FinishReason that knows one reason only: choice.get("finish_reason") == "stop".
FinishReasonStopOnly(choice) == PyGet(choice, "finish_reason", Null) = Str("stop")

\* if choice.get("finish_reason"): break
FinishReason(choice) == PyTruthy(PyGet(choice, "finish_reason", Null))

----------------------------------------------------------------------------
\* LLMClient.__init__

\* base_url.rstrip("/")
RstripSlash(b) ==
  CASE b = "https://h/" -> "https://h"
    [] b = "https://h//" -> "https://h"
    [] OTHER -> b

NewClient(api_key, base_url) ==
  [api_key |-> api_key,
   base_url |-> RstripSlash(base_url),
   chat_endpoint |-> RstripSlash(base_url) \o "/api/chat"]

\* The arguments every instance is built with.
ApiKey == "k"
BaseUrl == "https://h/"
Instances == {1, 2}

\* Two streamed calls side by side.
Gens == {1, 2}
NewGen ==
  [pc |-> "start", inst |-> 1, show |-> FALSE, url |-> "", read |-> 0,
   results |-> <<>>, choice |-> Null, error |-> "none"]

\* The streams the upstream answers the two calls with.
Streams ==
  { <<Data(ChunkA), Data(ChunkB), <<Txt("data: "), Txt("[DONE]")>>>>,
    <<<<Txt("data: "), Txt("not-json")>>, Data(ChunkC), Data(ChunkA)>>,
    <<<<Txt(":"), Txt(" "), Txt("ping")>>, Data(ChunkA),
      <<Txt(" "), Txt("[DONE]"), Txt(" ")>>, Data(ChunkA)>>,
    <<Data(ChunkNullContent), <<Txt("data: "), BadByte>>>> }

----------------------------------------------------------------------------
VARIABLES
  pc,               \* where the call is
  stream,           \* chat(stream=...)
  show_thinking,    \* chat(show_thinking=...)
  reasoning_level,  \* chat(reasoning_level=...)
  messages,         \* the caller's message list, as it stands
  messagesAtCall,   \* the caller's message list as it was at the call
  client,           \* the fields of each LLMClient instance
  gen,              \* two streamed calls side by side: each generator's frame
  resp,             \* two streamed calls side by side: each response's lines
  payload,          \* the payload built by chat(), Null before
  sent,             \* the requests posted so far
  status,           \* status of the response, 0 before there is one
  connOpen,         \* the connection of the response is open
  body,             \* the body of the buffered response
  total,            \* number of lines the upstream sends before closing
  linesRead,        \* number of lines taken from response.iter_lines()
  line,             \* the line read last
  results,          \* the results returned or yielded to the caller
  src,              \* for each result, the number of the line it came from
  choice,           \* the local `choice` of the suspended generator
  pulls,            \* number of next() calls the caller has made
  error             \* the exception that reached the caller, "none" if none

vars == <<pc, stream, show_thinking, reasoning_level, messages, messagesAtCall,
          client, gen, resp, payload, sent, status,
          connOpen, body, total, linesRead, line, results, src, choice, pulls,
          error>>

sideBySide == <<client, gen, resp>>
callArgs == <<stream, show_thinking, reasoning_level, messages, messagesAtCall,
              sideBySide>>
streamVars == <<total, linesRead, line, src, choice>>
noPull == <<streamVars, pulls>>

Init ==
  /\ pc = "start"
  /\ stream \in BOOLEAN
  /\ show_thinking \in BOOLEAN
  /\ reasoning_level \in Levels
  /\ messages \in MessageLists
  /\ messagesAtCall = messages
  /\ client = [c \in Instances |-> NewClient(ApiKey, BaseUrl)]
  /\ gen = [i \in Gens |-> NewGen]
  /\ resp = [i \in Gens |-> <<>>]
  /\ payload = Null
  /\ sent = <<>>
  /\ status = 0
  /\ connOpen = FALSE
  /\ body = NoBody
  /\ total = 0
  /\ linesRead = 0
  /\ line = NoLine
  /\ results = <<>>
  /\ src = <<>>
  /\ choice = Null
  /\ pulls = 0
  /\ error = "none"

\* IsInvalidLevel that lets every falsy level through:
\* if reasoning_level and reasoning_level not in valid_levels
IsInvalidLevelTruthy(level) == PyTruthy(level) /\ level \notin valid_levels

\* if reasoning_level not in valid_levels
IsInvalidLevel(level) == level \notin valid_levels

\* requests.post(self.chat_endpoint, json=payload, headers=headers[, stream=True])
Request(p, strm) == [url |-> "/api/chat", json |-> p, stream |-> strm]

\* chat() with a reasoning_level that is not accepted.
ChatInvalid ==
  /\ pc = "start"
  /\ IsInvalidLevel(reasoning_level)
  /\ pc' = "raised"
  /\ error' = "ValueError"
  /\ UNCHANGED <<callArgs, payload, sent, status, connOpen, body, results>>
  /\ UNCHANGED noPull

\* chat(stream=False): _non_stream_chat runs to its return or its exception.
ChatBuffered ==
  /\ pc = "start"
  /\ ~IsInvalidLevel(reasoning_level)
  /\ ~stream
  /\ payload' = BuildPayload(messages, stream, reasoning_level)
  /\ sent' = Append(sent, Request(payload', FALSE))
  /\ \E s \in Statuses, b \in Bodies :
       /\ status' = s
       /\ IF IsHttpError(s)
          THEN /\ body' = NoBody
               /\ pc' = "raised"
               /\ error' = "HTTPError"
               /\ results' = results
          ELSE LET out == NonStreamResult(b, show_thinking) IN
               /\ body' = b
               /\ IF out.k = "raise"
                  THEN pc' = "raised" /\ error' = out.exc /\ results' = results
                  ELSE /\ pc' = "returned"
                       /\ error' = error
                       /\ results' = Append(results, out.result)
  /\ UNCHANGED <<callArgs, connOpen>>
  /\ UNCHANGED noPull

\* chat(stream=True): the generator object is created and returned; no line
\* of _stream_chat has run yet.
ChatStream ==
  /\ pc = "start"
  /\ ~IsInvalidLevel(reasoning_level)
  /\ stream
  /\ payload' = BuildPayload(messages, stream, reasoning_level)
  /\ pc' = "created"
  /\ UNCHANGED <<callArgs, sent, status, connOpen, body, results, error>>
  /\ UNCHANGED noPull

\* First next() on the generator: the request and raise_for_status().
StartStream ==
  /\ pc = "created"
  /\ sent' = Append(sent, Request(payload, TRUE))
  /\ connOpen' = TRUE
  /\ \E s \in Statuses :
       /\ status' = s
       /\ IF IsHttpError(s)
          THEN pc' = "raised" /\ error' = "HTTPError" /\ total' = total
          ELSE pc' = "running" /\ error' = error /\ total' \in 0..MaxLines
  /\ pulls' = pulls + 1
  /\ UNCHANGED <<callArgs, payload, body, linesRead, line, results, src, choice>>

\* response.iter_lines() is exhausted: the loop and the generator end, and
\* the transport, having read the body to its end, releases the connection.
EndOfStream ==
  /\ pc = "running"
  /\ linesRead = total
  /\ pc' = "done"
  /\ connOpen' = FALSE
  /\ UNCHANGED <<callArgs, payload, sent, status, body, results, error>>
  /\ UNCHANGED noPull

\* AfterLine of a loop that collects its results instead of yielding them.
AfterLineEager(out) ==
  CASE out.k = "skip" -> "running"
    [] out.k = "break" -> "done"
    [] out.k = "raise" -> "raised"
    [] out.k = "emit" -> "running"

\* Where the generator is after an iteration: at the top of the loop
\* (continue), past the loop (break), gone with an exception, or suspended at
\* the yield.
AfterLine(out) ==
  CASE out.k = "skip" -> "running"
    [] out.k = "break" -> "done"
    [] out.k = "raise" -> "raised"
    [] out.k = "emit" -> "suspended"

\* One iteration of `for line in response.iter_lines()`.
ReadLine ==
  /\ pc = "running"
  /\ linesRead < total
  /\ \E b \in Lines :
       LET out == ProcessLine(b, show_thinking) IN
       /\ line' = b
       /\ linesRead' = linesRead + 1
       /\ pc' = AfterLine(out)
       /\ error' = IF out.k = "raise" THEN out.exc ELSE error
       /\ results' = IF out.k = "emit" THEN Append(results, out.result) ELSE results
       /\ src' = IF out.k = "emit" THEN Append(src, linesRead + 1) ELSE src
       /\ choice' = IF out.k = "emit" THEN out.choice ELSE choice
  /\ UNCHANGED <<callArgs, payload, sent, status, connOpen, body, total, pulls>>

\* next() on the suspended generator: it resumes after the yield.
Resume ==
  /\ pc = "suspended"
  /\ pc' = IF FinishReason(choice) THEN "done" ELSE "running"
  /\ pulls' = pulls + 1
  /\ UNCHANGED <<callArgs, payload, sent, status, connOpen, body, results, error>>
  /\ UNCHANGED streamVars

\* The caller stops iterating: the generator is never started, or is left
\* (or closed) at its yield.  _stream_chat has no finally or with block.
Abandon ==
  /\ pc \in {"created", "suspended"}
  /\ pc' = "abandoned"
  /\ UNCHANGED <<callArgs, payload, sent, status, connOpen, body, results, error>>
  /\ UNCHANGED noPull

\* The caller changes its message list in place after chat() has returned the
\* generator and before its first next(); the payload refers to that same list.
MutateMessages ==
  /\ pc = "created"
  /\ messages = messagesAtCall
  /\ messages' = Arr(Append(messages.a, LaterMessage))
  /\ payload' = WithMessages(payload, messages')
  /\ UNCHANGED <<pc, stream, show_thinking, reasoning_level, messagesAtCall>>
  /\ UNCHANGED sideBySide
  /\ UNCHANGED <<sent, status, connOpen, body, results, error>>
  /\ UNCHANGED noPull

\* A generator whose every next() after the end runs the function again.
PullAfterEndRestarts ==
  /\ pc \in {"done", "raised", "abandoned"}
  /\ stream
  /\ payload # Null
  /\ pulls < MaxPulls
  /\ pulls' = pulls + 1
  /\ sent' = Append(sent, Request(payload, TRUE))
  /\ pc' = "running"
  /\ linesRead' = 0
  /\ UNCHANGED <<callArgs, payload, status, connOpen, body, results, error>>
  /\ UNCHANGED <<total, line, src, choice>>

\* next() on a generator that has returned, raised or been closed: the
\* function body does not run again; the caller gets StopIteration.
PullAfterEnd ==
  /\ pc \in {"done", "raised", "abandoned"}
  /\ stream
  /\ payload # Null
  /\ pulls < MaxPulls
  /\ pulls' = pulls + 1
  /\ UNCHANGED <<pc, callArgs, payload, sent, status, connOpen, body, results, error>>
  /\ UNCHANGED streamVars

\* The interpreter may finalize the response once nothing refers to it.
Finalize ==
  /\ pc \in {"done", "raised", "abandoned"}
  /\ connOpen
  /\ connOpen' = FALSE
  /\ UNCHANGED <<pc, callArgs, payload, sent, status, body, results, error>>
  /\ UNCHANGED noPull

Next ==
  \/ ChatInvalid
  \/ ChatBuffered
  \/ ChatStream
  \/ StartStream
  \/ EndOfStream
  \/ ReadLine
  \/ Resume
  \/ Abandon
  \/ MutateMessages
  \/ PullAfterEnd
  \/ Finalize

Spec == Init /\ [][Next]_vars

----------------------------------------------------------------------------
\* Two streamed calls, on one instance or on two, pulled in any interleaving.

oneCall == <<pc, stream, show_thinking, reasoning_level, messages, messagesAtCall,
             payload, sent, status, connOpen, body, total, linesRead, line,
             results, src, choice, pulls, error>>

InitTwo ==
  /\ Init
  /\ stream
  /\ ~show_thinking
  /\ reasoning_level = Null
  /\ messages = Messages

\* The generator that the latest chat() call created.
Latest(g) == IF g[2].pc # "start" THEN 2 ELSE 1

\* show_thinking kept on the instance and read from there by every generator.
ShowForShared(g, i) == g[Latest(g)].show

\* show_thinking is a parameter of _stream_chat: each generator has its own.
ShowFor(g, i) == g[i].show

\* chat(stream=True) on an instance: the generator is created.
TwoChat(i) ==
  /\ gen[i].pc = "start"
  /\ i = 2 => gen[1].pc # "start"
  /\ \E c \in Instances, sh \in BOOLEAN :
       gen' = [gen EXCEPT ![i].pc = "created", ![i].inst = c, ![i].show = sh]
  /\ UNCHANGED <<client, resp, oneCall>>

\* First next(): the request to the instance's endpoint, raise_for_status().
TwoStart(i) ==
  /\ gen[i].pc = "created"
  /\ \E st \in Statuses, ls \in Streams :
       IF IsHttpError(st)
       THEN /\ gen' = [gen EXCEPT ![i].pc = "raised", ![i].error = "HTTPError",
                                   ![i].url = client[gen[i].inst].chat_endpoint]
            /\ resp' = resp
       ELSE /\ gen' = [gen EXCEPT ![i].pc = "running",
                                   ![i].url = client[gen[i].inst].chat_endpoint]
            /\ resp' = [resp EXCEPT ![i] = ls]
  /\ UNCHANGED <<client, oneCall>>

\* One iteration of the loop of generator i over its own response.
TwoRead(i) ==
  /\ gen[i].pc = "running"
  /\ gen[i].read < Len(resp[i])
  /\ LET out == ProcessLine(resp[i][gen[i].read + 1], ShowFor(gen, i)) IN
     gen' = [gen EXCEPT
               ![i].read = @ + 1,
               ![i].pc = AfterLine(out),
               ![i].error = IF out.k = "raise" THEN out.exc ELSE @,
               ![i].results = IF out.k = "emit" THEN Append(@, out.result) ELSE @,
               ![i].choice = IF out.k = "emit" THEN out.choice ELSE @]
  /\ UNCHANGED <<client, resp, oneCall>>

\* The response of generator i is exhausted.
TwoEnd(i) ==
  /\ gen[i].pc = "running"
  /\ gen[i].read = Len(resp[i])
  /\ gen' = [gen EXCEPT ![i].pc = "done"]
  /\ UNCHANGED <<client, resp, oneCall>>

\* next() on the suspended generator i.
TwoResume(i) ==
  /\ gen[i].pc = "suspended"
  /\ gen' = [gen EXCEPT ![i].pc = IF FinishReason(gen[i].choice) THEN "done" ELSE "running"]
  /\ UNCHANGED <<client, resp, oneCall>>

NextTwo ==
  \E i \in Gens :
    \/ TwoChat(i)
    \/ TwoStart(i)
    \/ TwoRead(i)
    \/ TwoEnd(i)
    \/ TwoResume(i)

SpecTwo == InitTwo /\ [][NextTwo]_vars

----------------------------------------------------------------------------
\* The text of a JSON document, and of a body, as sent by the upstream.
RECURSIVE JsonText(_)
RECURSIVE JsonItems(_)
RECURSIVE JsonPairs(_)
JsonText(v) ==
  CASE v.t = "null" -> "null"
    [] v.t = "bool" -> IF v.b THEN "true" ELSE "false"
    [] v.t = "num" -> ToString(v.n)
    [] v.t = "str" -> "\"" \o v.s \o "\""
    [] v.t = "arr" -> "[" \o JsonItems(v.a) \o "]"
    [] v.t = "obj" -> "{" \o JsonPairs(v.o) \o "}"
JsonItems(a) ==
  IF a = <<>> THEN ""
  ELSE JsonText(Head(a)) \o (IF Len(a) > 1 THEN ", " ELSE "") \o JsonItems(Tail(a))
JsonPairs(o) ==
  IF o = <<>> THEN ""
  ELSE "\"" \o Head(o)[1] \o "\": " \o JsonText(Head(o)[2])
       \o (IF Len(o) > 1 THEN ", " ELSE "") \o JsonPairs(Tail(o))
RECURSIVE RawText(_)
RawText(b) ==
  IF b = <<>> THEN ""
  ELSE (IF Head(b).k = "json" THEN JsonText(Head(b).v) ELSE Head(b).s)
       \o RawText(Tail(b))

\* The line read last went through json.loads, and what it parsed to.
Parses(l) ==
  /\ l # <<>>
  /\ Decodable(l)
  /\ ~StartsWith(l, ":")
  /\ Strip(l) # <<>>
  /\ Strip(StripDataPrefix(l)) # <<Txt("[DONE]")>>
  /\ IsJson(StripDataPrefix(l))
DataOf(l) == JsonLoads(StripDataPrefix(l))
HasChoicesArray(d) ==
  /\ d.t = "obj"
  /\ HasKey(d, "choices")
  /\ Lookup(d, "choices").t = "arr"
  /\ Len(Lookup(d, "choices").a) > 0
Choice0(d) == Lookup(d, "choices").a[1]
CarriesFinish(l) ==
  /\ Parses(l)
  /\ HasChoicesArray(DataOf(l))
  /\ Choice0(DataOf(l)).t = "obj"
  /\ HasKey(Choice0(DataOf(l)), "finish_reason")
  /\ PyTruthy(Lookup(Choice0(DataOf(l)), "finish_reason"))
DeltaUsable(c) == ~HasKey(c, "delta") \/ Lookup(c, "delta").t = "obj"
LastSrc == IF src = <<>> THEN 0 ELSE src[Len(src)]
\* The line read last produced a result and nothing runs after it.
EmittedThenStopped ==
  /\ LastSrc = linesRead
  /\ pc \in {"suspended", "done", "abandoned"}

----------------------------------------------------------------------------
\* C1: a reasoning_level other than "low", "medium", "high" or None makes
\* chat() raise ValueError, with stream true or false, and no request is ever
\* built or sent for that call.
C1_InvalidLevelRejected ==
  reasoning_level \notin {Str("low"), Str("medium"), Str("high"), Null} =>
    /\ pc \in {"start", "raised"}
    /\ pc = "raised" => error = "ValueError"
    /\ sent = <<>>
    /\ payload = Null
    /\ status = 0
    /\ ~connOpen
C1_Witness ==
  pc = "raised" /\ error = "ValueError" /\ stream /\ reasoning_level = Str("")

\* C2: with show_thinking false every result handed to the caller, buffered
\* or streamed, extracted or fallback, has reasoning "".
C2_ReasoningHidden ==
  ~show_thinking => \A i \in DOMAIN results : results[i].reasoning = Str("")
C2_Witness ==
  /\ ~show_thinking
  /\ pc = "suspended"
  /\ line = Data(ChunkA)
  /\ Len(results) = 2

\* C3: whenever the streamed sequence has ended or has been abandoned, the
\* connection of its response is closed.
C3_ConnectionReleased == pc \in {"done", "abandoned"} => ~connOpen

\* C4: a chat call that passed the reasoning_level check has sent exactly one
\* request, however the caller consumes the result: never more than one, and
\* not zero once the call has returned, raised or been left behind.
C4_ExactlyOneRequest ==
  /\ Len(sent) <= 1
  /\ (pc \in {"returned", "running", "suspended", "done", "abandoned"}
        \/ (pc = "raised" /\ error # "ValueError")) => Len(sent) = 1

\* C5: a response with a failing status gives the caller an HTTPError and
\* nothing else: no result, buffered or streamed, and no line read.
C5_HttpErrorBeforeResults ==
  status >= 400 =>
    /\ pc = "raised"
    /\ error = "HTTPError"
    /\ results = <<>>
    /\ linesRead = 0
C5_Witness == status = 404 /\ stream /\ pc = "raised" /\ pulls = 1

\* C6: whatever a line of the stream contains, no exception reaches the caller
\* once lines are being read.
C6_NoLineAborts == linesRead > 0 => (pc # "raised" /\ error = "none")

\* C7: a buffered response with a success status whose body is not JSON
\* returns the raw body as content, reasoning "", and raises nothing.
C7_MalformedBodyFallsBack ==
  (~stream /\ status = 200 /\ body # NoBody /\ ~IsJson(body)) =>
    /\ pc = "returned"
    /\ error = "none"
    /\ results = <<[content |-> Str(RawText(body)), reasoning |-> Str("")]>>

\* C8 as stated: a parsed line whose choices[0] carries a truthy
\* finish_reason emits its result and ends the sequence.
C8_FinishAlwaysTerminates == CarriesFinish(line) => EmittedThenStopped

\* C8: a parsed line whose choices[0] carries a truthy finish_reason, and a
\* delta that is absent or an object, emits its result and then ends the
\* sequence: no later line is read and no further result is yielded.
C8_FinishTerminates ==
  (CarriesFinish(line) /\ DeltaUsable(Choice0(DataOf(line)))) => EmittedThenStopped
C8_Witness ==
  /\ CarriesFinish(line)
  /\ pc = "done"
  /\ Len(results) = 2
  /\ linesRead < total

\* C9: a line that is [DONE] after the optional "data: " prefix is removed
\* and whitespace trimmed ends the sequence: no result for it, nothing read
\* or yielded after it.
C9_DoneTerminates ==
  Strip(StripDataPrefix(line)) = <<Txt("[DONE]")>> =>
    /\ pc = "done"
    /\ LastSrc < linesRead
C9_Witness ==
  /\ line = <<Txt(" "), Txt("[DONE]"), Txt(" ")>>
  /\ pc = "done"
  /\ Len(results) = 1
  /\ linesRead < total

\* C10: the sequence is lazy: every result was asked for by a next(), and a
\* line after the source line of the latest result is read only for a next()
\* that has no result yet.
C10_Lazy ==
  stream =>
    /\ Len(results) <= pulls
    /\ linesRead > LastSrc => pulls > Len(results)
    /\ pulls = 0 => linesRead = 0
C10_Witness ==
  /\ pc = "suspended"
  /\ src = <<2>>
  /\ linesRead = 2
  /\ total = 3

\* C11: a line whose payload, after the optional "data: " prefix, is neither
\* JSON nor [DONE] is skipped: no result for it, no exception, and the
\* sequence goes on (it ends only when the stream is exhausted).
NotJsonPayload(l) ==
  /\ l # NoLine
  /\ ~IsJson(StripDataPrefix(l))
  /\ Strip(StripDataPrefix(l)) # <<Txt("[DONE]")>>
C11_NonJsonSkipped ==
  NotJsonPayload(line) =>
    /\ LastSrc < linesRead
    /\ error = "none"
    /\ pc \in {"running", "done"}
    /\ pc = "done" => linesRead = total

\* C12: a buffered body that parsed and has no non-empty choices array (choices
\* absent or empty, the body not an object, choices not an array) makes the
\* call return content = str(body), reasoning = "", for either show_thinking.
C12_FallbackForEveryShape ==
  (~stream /\ status = 200 /\ IsJson(body) /\ ~HasChoicesArray(JsonLoads(body))) =>
    /\ pc = "returned"
    /\ error = "none"
    /\ results = <<[content |-> Str(PyRepr(JsonLoads(body))), reasoning |-> Str("")]>>

\* choices[0].<kind>.<f> of a parsed document, "" when absent.
FieldOf(d, kind, f) ==
  LET c == Choice0(d) IN
  IF c.t = "obj" /\ HasKey(c, kind) /\ Lookup(c, kind).t = "obj"
     /\ HasKey(Lookup(c, kind), f)
  THEN Lookup(Lookup(c, kind), f)
  ELSE Str("")

\* C13: a buffered body whose choices array has at least one element returns
\* content = choices[0].message.content ("" when absent) and, with
\* show_thinking, reasoning = choices[0].message.reasoning_content ("" when
\* absent); nothing but the first element is read.
C13_FirstChoiceExtracted ==
  (~stream /\ status = 200 /\ IsJson(body) /\ HasChoicesArray(JsonLoads(body))) =>
    /\ pc = "returned"
    /\ Len(results) = 1
    /\ results[1].content = FieldOf(JsonLoads(body), "message", "content")
    /\ show_thinking =>
         results[1].reasoning = FieldOf(JsonLoads(body), "message", "reasoning_content")

PayloadAsCalled(p) ==
  /\ HasKey(p, "reasoning_level") <=> reasoning_level # Null
  /\ HasKey(p, "reasoning_level") => Lookup(p, "reasoning_level") = reasoning_level
  /\ Lookup(p, "stream") = Bool(stream)
  /\ Len(p.o) = (IF reasoning_level # Null THEN 3 ELSE 2)
C15_PayloadFields ==
  /\ payload # Null => (PayloadAsCalled(payload) /\ Lookup(payload, "messages") = messages)
  /\ \A i \in DOMAIN sent : PayloadAsCalled(sent[i].json)
  /\ ~stream => \A i \in DOMAIN sent : Lookup(sent[i].json, "messages") = messagesAtCall
C15_Witness ==
  /\ Len(sent) = 1
  /\ reasoning_level = Null
  /\ messagesAtCall = Messages2
  /\ ~stream

\* C20: every request sent carries the messages as they were when chat() was
\* called, also when the caller changed its list before the first next().
C20_MessagesAsAtCall ==
  \A i \in DOMAIN sent : Lookup(sent[i].json, "messages") = messagesAtCall

\* C16: the streamed sequence is finite and cannot be restarted.  While it has
\* not ended, each next() so far but the current one has consumed a line of the
\* finite stream, and the generator can always take its next step; once it has
\* ended, a next() yields nothing, reads nothing and sends nothing.
Ended == stream /\ pc \in {"done", "raised", "abandoned"}
C16_Progress ==
  stream =>
    /\ linesRead <= total
    /\ pc = "running" => (pulls <= linesRead + 1 /\ ENABLED (ReadLine \/ EndOfStream))
    /\ pc = "suspended" => (pulls <= linesRead /\ ENABLED Resume)
C16_StaysEnded ==
  Ended => /\ pc' = pc
           /\ results' = results
           /\ linesRead' = linesRead
           /\ sent' = sent
           /\ error' = error
C16_FiniteNonRestartable == [](C16_Progress) /\ [][C16_StaysEnded]_vars
C16_Witness ==
  /\ pc = "done"
  /\ Len(results) = 2
  /\ linesRead = 2
  /\ total = 3
  /\ pulls = 4

\* The line read last gave exactly one result, with the content and (under
\* show_thinking) the reasoning of choices[0].delta.
EmittedDelta ==
  /\ Cardinality({i \in DOMAIN src : src[i] = linesRead}) = 1
  /\ LastSrc = linesRead
  /\ Len(results) = Len(src)
  /\ results[Len(results)].content = FieldOf(DataOf(line), "delta", "content")
  /\ show_thinking =>
       results[Len(results)].reasoning = FieldOf(DataOf(line), "delta", "reasoning_content")
\* The line read last gave no result and no error, and the loop goes on.
SkippedQuietly ==
  /\ LastSrc < linesRead
  /\ error = "none"
  /\ pc \in {"running", "done"}
  /\ pc = "done" => linesRead = total
ChoicesAbsentOrEmpty(d) ==
  /\ d.t = "obj"
  /\ ~HasKey(d, "choices") \/ Lookup(d, "choices") = Arr(<<>>)

\* C18 as stated: every line that parses to an object with a non-empty choices
\* array emits exactly one result, from choices[0].delta; every line that
\* parses to an object with choices absent or empty is skipped quietly.
C18_EveryChoicesLineEmits ==
  /\ (Parses(line) /\ HasChoicesArray(DataOf(line))) => EmittedDelta
  /\ (Parses(line) /\ ChoicesAbsentOrEmpty(DataOf(line))) => SkippedQuietly

\* C18: the same, for a choices array whose first element is an object with a
\* delta that is absent or an object.
C18_ChoicesLineEmits ==
  /\ (/\ Parses(line)
      /\ HasChoicesArray(DataOf(line))
      /\ Choice0(DataOf(line)).t = "obj"
      /\ DeltaUsable(Choice0(DataOf(line)))) => EmittedDelta
  /\ (Parses(line) /\ ChoicesAbsentOrEmpty(DataOf(line))) => SkippedQuietly
C18_Witness ==
  /\ line = Data(ChunkA)
  /\ show_thinking
  /\ pc = "suspended"
  /\ results[Len(results)] = [content |-> Str("a"), reasoning |-> Str("r")]
  /\ Len(results) = 2

\* C19: results come in the order of their lines, a line gives at most one
\* result, and a line that is empty after trimming or begins with ":" gives no
\* result and never ends the sequence (so there are never more results than
\* other lines read).
BlankOrComment(l) ==
  /\ l # NoLine
  /\ l = <<>> \/ StartsWith(l, ":") \/ Strip(l) = <<>>
C19_OrderedAndSkipping ==
  stream =>
    /\ Len(results) = Len(src)
    /\ \A i \in DOMAIN src : src[i] >= 1 /\ src[i] <= linesRead
    /\ \A i, j \in DOMAIN src : i < j => src[i] < src[j]
    /\ BlankOrComment(line) => SkippedQuietly

\* What _stream_chat yields from the lines ls when it is consumed alone.
RECURSIVE Alone(_, _)
Alone(ls, show) ==
  IF ls = <<>> THEN <<>>
  ELSE LET out == ProcessLine(Head(ls), show) IN
       CASE out.k = "skip" -> Alone(Tail(ls), show)
         [] out.k = "break" -> <<>>
         [] out.k = "raise" -> <<>>
         [] out.k = "emit" ->
              <<out.result>>
              \o (IF PyTruthy(PyGet(out.choice, "finish_reason", Null))
                  THEN <<>> ELSE Alone(Tail(ls), show))

\* C17: two streamed calls pulled in any interleaving, on one instance or on
\* two built alike, each yield what they yield alone on their own response,
\* and the instances keep the credential, base address and endpoint they were
\* built with.
C17_CallsIndependent ==
  /\ \A i \in Gens :
       gen[i].results = Alone(SubSeq(resp[i], 1, gen[i].read), gen[i].show)
  /\ \A c \in Instances :
       client[c] = [api_key |-> "k", base_url |-> "https://h",
                    chat_endpoint |-> "https://h/api/chat"]
C17_Witness ==
  /\ gen[1].pc = "suspended"
  /\ gen[2].pc = "suspended"
  /\ gen[1].inst = gen[2].inst
  /\ gen[1].show /\ ~gen[2].show
  /\ Len(gen[1].results) = 2
  /\ Len(gen[2].results) = 1
  /\ resp[1] = resp[2]
====
